---- MODULE Spec2Model ----
(***************************************************************************)
(* Account lifecycle of EcoPulseBackend (controllers/accountController.js) *)
(* with the notification calls it makes (utils/emailService.js).           *)
(*                                                                         *)
(* Every HTTP handler is an async function: it runs atomically between two *)
(* awaits and other requests interleave at each await.  A handler that     *)
(* writes is two actions: its read (the request's arrival, the validation, *)
(* the store query and the synchronous code up to the write) and its write *)
(* (the store update, the notification sends and the response).  The read  *)
(* is the first step of a handler that touches shared state, and after the *)
(* write a handler only sends mail and responds, which no other request    *)
(* can observe, so these two points carry every interleaving the handlers  *)
(* have.  The order of the write, the sends and the response inside the    *)
(* second action is kept in the request's event log.                       *)
(*                                                                         *)
(* Time is counted in days.  crypto.randomBytes(32) is modelled as a       *)
(* supply of fresh values 1, 2, ...: a 256-bit random value never repeats  *)
(* and is never guessed by a client before it has been issued.             *)
(***************************************************************************)
EXTENDS Integers, FiniteSets, Sequences, TLC

\* ---------------------------------------------------------------- bounds
MaxTokens == 2
MaxTime == 180
TickDays == 90

\* ------------------------------------------------------ program constants
\* 90 * 24 * 60 * 60 * 1000 ms, in days
ReactivationDays == 90

\* ------------------------------------------------------------- universe
\* u1 is the account the requests and the inactivity job act on; u2 is a
\* second record of the store that no request names
Accounts == {"u1"}
Users == Accounts \cup {"u2"}
NoUser == "none"
\* "u9" is a well-formed id without a record, "" is a missing id
UserIds == Accounts \cup {"u9", ""}
Reqs == {"r1", "r2"}
Unset == -1
\* a token string that was never issued
BogusToken == 0
Tokens == 1..MaxTokens

UserEmail(u) == IF u = "u1" THEN "a@x.com" ELSE "b@x.com"
\* "" is a missing email, "A@x.com" differs from u1's email in case only,
\* "n@x.com" belongs to no account
RequestEmails == {"", "a@x.com", "A@x.com", "n@x.com"}
CallerRoles == {"user", "admin"}

VARIABLES users, now, nextToken, faulty, pc, op, token, loc, resp, log,
          issued, spent, mailer, env, alert

vars == <<users, now, nextToken, faulty, pc, op, token, loc, resp, log,
          issued, spent, mailer, env, alert>>

\* the state of the account handlers
accountVars == <<users, now, nextToken, faulty, pc, op, token, loc, resp, log,
                 issued, spent>>

\* ------------------------------------------------------------ documents
NewUser ==
  [ isDeactivated |-> FALSE, isAutoDeactivated |-> FALSE,
    deletedAt |-> Unset, autoDeactivatedAt |-> Unset,
    reactivationToken |-> Unset, reactivationTokenExpires |-> Unset,
    reactivationAttempts |-> Unset, lastReactivationAttempt |-> Unset,
    lastLogin |-> Unset, lastActivity |-> Unset,
    reactivationCode |-> FALSE, verificationCode |-> FALSE,
    googleId |-> "", password |-> "", lockoutUntil |-> Unset ]

NoLoc == [uid |-> NoUser, tok |-> Unset, exp |-> Unset, at |-> Unset,
          att |-> Unset]
NoResp ==
  [status |-> 0, success |-> FALSE, message |-> "", error |-> "",
   detail |-> "", user |-> NoUser]

\* res.status(st).json({ success, message, redirectUrl: ..?error=err })
Response(st, ok, msg, err) ==
  [status |-> st, success |-> ok, message |-> msg, error |-> err,
   detail |-> "", user |-> NoUser]

\* ------------------------------------------------------------ responses
RespUserIdRequired == Response(400, FALSE, "User ID is required", "")
RespNotFound == Response(404, FALSE, "User not found", "")
RespConflict == Response(400, FALSE, "Account is already deactivated", "")
RespDeactivated ==
  Response(200, TRUE, "Account deactivated successfully. A reactivation link has been sent to your email.", "")
RespMissingToken ==
  Response(400, FALSE, "Reactivation token is required", "missing_token")
RespInvalidToken ==
  Response(400, FALSE, "Invalid or expired reactivation token", "invalid_token")
RespTokenExpired ==
  Response(400, FALSE, "Reactivation token has expired", "expired_token")
\* the success body of reactivateAccount carries the account's projection
RespReactivated(u) ==
  [Response(200, TRUE, "Account reactivated successfully", "") EXCEPT !.user = u]
RespForbidden ==
  Response(403, FALSE, "You don't have permission to perform this action", "")
RespAdminDeactivated ==
  Response(200, TRUE, "User account deactivated successfully. A reactivation link has been sent to their email.", "")
RespEmailRequired == Response(400, FALSE, "Email is required", "")
RespRequestNoMatch ==
  Response(200, TRUE, "If your account exists and is deactivated, a reactivation email will be sent.", "")
RespRequestSent ==
  Response(200, TRUE, "If your account exists and is deactivated, a reactivation email has been sent.", "")

\* error.message of the exception a failed store operation throws
StoreErrorMessage == "MongoNetworkError: connection 4 to db:27017 closed"

\* error: error.message in the body of the catch block
WithErrorDetail(rsp) == [rsp EXCEPT !.detail = StoreErrorMessage]

\* the catch block of a handler: res.status(500).json({ success: false,
\* message, error: error.message }), in reactivateAccount with a redirectUrl
\* that ends in error=server_error
RespServerError(o) ==
  IF o = "reactivate"
  THEN WithErrorDetail(Response(500, FALSE, "Server error during account reactivation", "server_error"))
  ELSE WithErrorDetail(Response(500, FALSE, "Server error", ""))

\* ------------------------------------------------------- store queries
\* User.findById(userId)
FindById(uid) == IF uid \in Users THEN uid ELSE NoUser

\* usersCollection.findOne({ reactivationToken: cleanToken })
FindByToken(tok) ==
  IF \E u \in Users : users[u].reactivationToken = tok
  THEN CHOOSE u \in Users : users[u].reactivationToken = tok
  ELSE NoUser

\* a lookup that forgets the $or filter on the deactivation flags
FindByEmail_AnyStatus(email) ==
  IF \E u \in Users : UserEmail(u) = email
  THEN CHOOSE u \in Users : UserEmail(u) = email
  ELSE NoUser

\* usersCollection.findOne({ email, $or: [{isDeactivated: true}, {isAutoDeactivated: true}] })
FindDeactivatedByEmail(email) ==
  IF \E u \in Users : /\ UserEmail(u) = email
                      /\ (users[u].isDeactivated \/ users[u].isAutoDeactivated)
  THEN CHOOSE u \in Users : /\ UserEmail(u) = email
                            /\ (users[u].isDeactivated \/ users[u].isAutoDeactivated)
  ELSE NoUser

\* ------------------------------------------------------ handler helpers
\* a check that forgets the auto-deactivation flag
AlreadyDeactivated_ManualOnly(doc) == doc.isDeactivated

\* user.isDeactivated || user.isAutoDeactivated
AlreadyDeactivated(doc) == doc.isDeactivated \/ doc.isAutoDeactivated

\* a role check that lets every caller through
IsAdmin_Anyone(role) == TRUE

\* !(req.user.role !== 'admin')
IsAdmin(role) == role = "admin"

\* an expiry of 30 days instead of 90
TokenExpiry_30Days(t) == t + 30

\* new Date(Date.now() + 90 * 24 * 60 * 60 * 1000)
TokenExpiry(t) == t + ReactivationDays

\* an expiry check that never fires
TokenExpired_Never(doc, t) == FALSE

\* an expiry check that also fires at the instant of the expiry
TokenExpired_AtExpiry(doc, t) ==
  doc.reactivationTokenExpires # Unset /\ doc.reactivationTokenExpires <= t

\* rawUser.reactivationTokenExpires && new Date(rawUser.reactivationTokenExpires) < new Date()
TokenExpired(doc, t) ==
  doc.reactivationTokenExpires # Unset /\ doc.reactivationTokenExpires < t

\* the fields user.save() writes after deactivateAccount / adminDeactivateUser
\* modified them
DeactivatedDoc(doc, l) ==
  [doc EXCEPT !.isDeactivated = TRUE,
              !.deletedAt = l.at,
              !.reactivationToken = l.tok,
              !.reactivationTokenExpires = l.exp]

\* an update that forgets to $unset reactivationToken
ReactivatedDoc_KeepsToken(doc, l) ==
  [doc EXCEPT !.isDeactivated = FALSE,
              !.isAutoDeactivated = FALSE,
              !.lastActivity = l.at,
              !.lastLogin = l.at,
              !.deletedAt = Unset,
              !.autoDeactivatedAt = Unset,
              !.reactivationTokenExpires = Unset,
              !.lastReactivationAttempt = Unset,
              !.reactivationAttempts = Unset]

\* an update split in two writes, of which this is the first: the flags
ReactivatedDoc_FlagsOnly(doc, l) ==
  [doc EXCEPT !.isDeactivated = FALSE,
              !.isAutoDeactivated = FALSE,
              !.lastActivity = l.at,
              !.lastLogin = l.at]

\* the $set / $unset of reactivateAccount
ReactivatedDoc(doc, l) ==
  [doc EXCEPT !.isDeactivated = FALSE,
              !.isAutoDeactivated = FALSE,
              !.lastActivity = l.at,
              !.lastLogin = l.at,
              !.deletedAt = Unset,
              !.autoDeactivatedAt = Unset,
              !.reactivationToken = Unset,
              !.reactivationTokenExpires = Unset,
              !.lastReactivationAttempt = Unset,
              !.reactivationAttempts = Unset]

\* (user.reactivationAttempts || 0) + 1
NextAttempts(doc) ==
  (IF doc.reactivationAttempts = Unset THEN 0 ELSE doc.reactivationAttempts) + 1

\* a $set that leaves the stored token in place
RotatedDoc_KeepsToken(doc, l) ==
  [doc EXCEPT !.reactivationTokenExpires = l.exp,
              !.lastReactivationAttempt = l.at,
              !.reactivationAttempts = l.att]

\* a $set that leaves the stored expiry in place
RotatedDoc_KeepsExpiry(doc, l) ==
  [doc EXCEPT !.reactivationToken = l.tok,
              !.lastReactivationAttempt = l.at,
              !.reactivationAttempts = l.att]

\* the $set of requestReactivation
RotatedDoc(doc, l) ==
  [doc EXCEPT !.reactivationToken = l.tok,
              !.reactivationTokenExpires = l.exp,
              !.lastReactivationAttempt = l.at,
              !.reactivationAttempts = l.att]

\* ------------------------------------------------- email transporters
\* process.env.EMAIL_USER
EmailUser == "mail@x.com"

\* process.env as the module reads it: whether EMAIL_USER,
\* EMAIL_APP_PASSWORD and EMAIL_PASSWORD are set, whether the BACKUP_
\* credentials are, the backup's user, and NODE_ENV
Envs ==
  [emailUser : BOOLEAN, appPassword : BOOLEAN, password : BOOLEAN,
   backup : BOOLEAN, backupUser : {"backup@x.com", "mail@x.com"}, adminEmail : BOOLEAN,
   nodeEnv : {"production", "development"}]

\* a production environment with every credential set
DefaultEnv ==
  [emailUser |-> TRUE, appPassword |-> TRUE, password |-> TRUE,
   backup |-> TRUE, backupUser |-> "backup@x.com", adminEmail |-> TRUE,
   nodeEnv |-> "production"]

\* a nodemailer transport; user is options.auth.user, pass tells whether
\* options.auth.pass is set
Transporter(slot, user, pass) == [slot |-> slot, user |-> user, pass |-> pass]

\* createTransporter(): null when !user || !pass, with
\* pass = EMAIL_APP_PASSWORD || EMAIL_PASSWORD
HasPrimary(e) == e.emailUser /\ (e.appPassword \/ e.password)

\* [primaryTransporter, backupTransporter, lastResortTransporter]
\*   .filter(t => t !== null): the last resort exists when the primary does
\* and logs in with EMAIL_USER and EMAIL_APP_PASSWORD
AvailableTransporters(e) ==
  (IF HasPrimary(e) THEN <<Transporter("primary", EmailUser, TRUE)>> ELSE << >>)
    \o (IF e.backup THEN <<Transporter("backup", e.backupUser, TRUE)>> ELSE << >>)
    \o (IF HasPrimary(e)
        THEN <<Transporter("lastResort", EmailUser, e.appPassword)>> ELSE << >>)

\* if (availableTransporters.length === 0) throw new Error(message)
StartupFails(list) == list = << >>

\* ['Primary', 'Backup', 'Last Resort'][i]
TransporterNames == <<"Primary", "Backup", "Last Resort">>

\* a loop that walks the list from its end
TransporterAt_Reversed(list, i) == list[Len(list) + 1 - i]

\* availableTransporters[i]
TransporterAt(list, i) == list[i]

\* transporterInstance.options?.auth?.user || 'unknown'
ProviderIdentity(t) == IF t.user = "" THEN "unknown" ELSE t.user

\* the error object sendMail rejects with
SmtpError(code, responseCode, command, message) ==
  [code |-> code, responseCode |-> responseCode, command |-> command,
   message |-> message]

\* let lastError = null
NoError == SmtpError("null", 0, "", "")

\* rejections of sendMail: bad login, the same with a lower-case code, a 535
\* answer, a timeout, a refused recipient, missing credentials, a message
\* nodemailer cannot build, a timeout that also carries a 550, and an error
\* none of the checks knows
SmtpErrors ==
  { SmtpError("EAUTH", 0, "", "Invalid login"),
    SmtpError("eauth", 0, "", "Invalid login"),
    SmtpError("", 535, "AUTH PLAIN", "Authentication failed"),
    SmtpError("ETIMEDOUT", 0, "CONN", "Connection timeout"),
    SmtpError("EENVELOPE", 550, "RCPT TO", "Mailbox unavailable"),
    SmtpError("", 0, "", "Missing credentials for PLAIN"),
    SmtpError("EMESSAGE", 0, "", "Cannot build message"),
    SmtpError("ETIMEDOUT", 550, "", "Connection timeout"),
    SmtpError("EPROTOCOL", 421, "", "Service not available") }

\* String(..).toUpperCase() on the strings above
ToUpperCase(str) ==
  CASE str = "eauth" -> "EAUTH"
    [] str = "auth login" -> "AUTH LOGIN"
    [] OTHER -> str

\* error.message?.includes(part) on the messages above
MessageIncludes(message, part) ==
  \/ message = part
  \/ message = "Missing credentials for PLAIN" /\ part = "Missing credentials"

MsgSendFailed == "Failed to send email. Please try again later or contact support."
MsgAuthFailed == "Email service authentication failed. Please contact support."
MsgConnectFailed == "Could not connect to the email service. Please check network or configuration."
MsgRejected == "Email address rejected by the server. Please ensure it is valid."
MsgNotConfigured == "Email service is not configured correctly. Please contact support."
MsgMalformed == "There was an issue formatting the email message."

\* interpretSmtpError(error)
InterpretSmtpError(error) ==
  LET errorCode == ToUpperCase(error.code)
      command == ToUpperCase(error.command)
  IN  IF error = NoError THEN MsgSendFailed
      ELSE IF errorCode = "EAUTH" \/ command = "AUTH LOGIN" \/ error.responseCode = 535
      THEN MsgAuthFailed
      ELSE IF errorCode \in {"ESOCKET", "ECONNECTION", "ETIMEDOUT", "ENOTFOUND"}
      THEN MsgConnectFailed
      ELSE IF error.responseCode \in {550, 551, 552, 553, 554}
      THEN MsgRejected
      ELSE IF \/ MessageIncludes(error.message, "Missing credentials")
              \/ MessageIncludes(error.message, "No transport method defined")
      THEN MsgNotConfigured
      ELSE IF errorCode = "EMESSAGE"
      THEN MsgMalformed
      ELSE MsgSendFailed

\* what a call of _sendMailWithFallback returns or throws
NoResult == [success |-> FALSE, provider |-> "", message |-> ""]

\* const staticAdminEmails = ['ecopulse00@gmail.com']
StaticAdminEmails == <<"ecopulse00@gmail.com">>

\* the state of a call of one of the exported send functions: none is
\* running.  collection is the User collection as the admin query reads it,
\* attempts are the sendMail calls the function has made
NoAlert ==
  [pc |-> "idle", kind |-> "none", collection |-> {}, query |-> "none",
   adminEmails |-> << >>, attempts |-> << >>, success |-> FALSE,
   error |-> ""]

\* no call of _sendMailWithFallback is running
NoMailer ==
  [transporters |-> << >>, pc |-> "idle", i |-> 0, lastError |-> NoError,
   attempts |-> << >>, logs |-> << >>, result |-> NoResult]

\* ----------------------------------------------------------------- Init
Init ==
  /\ users = [u \in Users |-> NewUser]
  /\ now = 0
  /\ nextToken = 1
  /\ faulty = FALSE
  /\ pc = [r \in Reqs |-> "idle"]
  /\ op = [r \in Reqs |-> "none"]
  /\ token = [r \in Reqs |-> Unset]
  /\ loc = [r \in Reqs |-> NoLoc]
  /\ resp = [r \in Reqs |-> NoResp]
  /\ log = [r \in Reqs |-> << >>]
  /\ issued = [u \in Users |-> {}]
  /\ spent = {}
  /\ mailer = NoMailer
  /\ env = DefaultEnv
  /\ alert = NoAlert


\* one entry of a request's event log
Event(kind, ok) == [kind |-> kind, ok |-> ok]

\* a request enters the handler o; tok is the reactivation token it presents
Begin(r, o, tok) ==
  /\ pc[r] \in {"idle", "done"}
  /\ op' = [op EXCEPT ![r] = o]
  /\ token' = [token EXCEPT ![r] = tok]
  /\ log' = [log EXCEPT ![r] = << >>]

\* res.status(..).json(..) on a path that ends the handler before any write
Reject(r, rsp) ==
  /\ pc' = [pc EXCEPT ![r] = "done"]
  /\ resp' = [resp EXCEPT ![r] = rsp]
  /\ loc' = [loc EXCEPT ![r] = NoLoc]

\* the handler goes on to its store write with the locals l
Proceed(r, l) ==
  /\ pc' = [pc EXCEPT ![r] = "write"]
  /\ resp' = [resp EXCEPT ![r] = NoResp]
  /\ loc' = [loc EXCEPT ![r] = l]

\* crypto.randomBytes(32).toString("hex"): the value is nextToken
GenerateToken ==
  /\ nextToken <= MaxTokens
  /\ nextToken' = nextToken + 1

\* the token tok is now stored on the account u (and mailed to its owner)
Issue(u, tok) == issued' = [issued EXCEPT ![u] = @ \cup {tok}]

\* the outcomes of transporter.sendMail
MailOutcomes == IF faulty THEN BOOLEAN ELSE {TRUE}

\* the outcomes of the awaited store write: it resolves or it throws
WriteOutcomes == IF faulty THEN BOOLEAN ELSE {TRUE}

\* which mail the handler sends to the user after its write
UserMailKind(o) ==
  IF o = "reactivate" THEN "reactivation_confirmation" ELSE "reactivation_token"

\* whether the handler calls sendAdminNotification
NotifiesAdmin(o) == o \in {"deactivate", "reactivate"}

\* the 200 body at the end of the handler o acting on the account u
SuccessResponse(o, u) ==
  CASE o = "deactivate" -> RespDeactivated
    [] o = "adminDeactivate" -> RespAdminDeactivated
    [] o = "reactivate" -> RespReactivated(u)
    [] OTHER -> RespRequestSent

\* a handler whose catch blocks re-raise a failed send
AnswerAfterNotify_Propagates(o, u, userOk, adminOk) ==
  IF userOk /\ adminOk THEN SuccessResponse(o, u) ELSE RespServerError(o)

\* a handler that stops without a response when a send failed
AnswerAfterNotify_Silent(o, u, userOk, adminOk) ==
  IF userOk /\ adminOk THEN SuccessResponse(o, u) ELSE NoResp

\* catch (emailError) { console.error(..) } and catch (notifyError)
\* { console.error(..) }: the handler continues to its 200 response whatever
\* the sends did
AnswerAfterNotify(o, u, userOk, adminOk) == SuccessResponse(o, u)

\* a handler that mails before it writes
TailEvents_MailFirst(o, userOk, adminOk) ==
  <<Event(UserMailKind(o), userOk), Event("write", TRUE)>>
    \o (IF NotifiesAdmin(o) THEN <<Event("admin_notification", adminOk)>> ELSE << >>)
    \o <<Event("response", TRUE)>>

\* the events of a handler from its write on, in program order
TailEvents(o, userOk, adminOk) ==
  <<Event("write", TRUE), Event(UserMailKind(o), userOk)>>
    \o (IF NotifiesAdmin(o) THEN <<Event("admin_notification", adminOk)>> ELSE << >>)
    \o <<Event("response", TRUE)>>

\* after the write: try { await send..Email } catch {} ;
\* try { await sendAdminNotification } catch {} ; res.status(200).json(..)
NotifyAndRespond(r) ==
  /\ \E userOk \in MailOutcomes, adminOk \in MailOutcomes :
       /\ NotifiesAdmin(op[r]) \/ adminOk
       /\ log' = [log EXCEPT ![r] = TailEvents(op[r], userOk, adminOk)]
       /\ resp' = [resp EXCEPT ![r] = AnswerAfterNotify(op[r], loc[r].uid, userOk, adminOk)]
  /\ pc' = [pc EXCEPT ![r] = "done"]
  /\ loc' = [loc EXCEPT ![r] = NoLoc]

\* the store write throws: the handler's catch block answers 500 and nothing
\* after the write runs
WriteFails(r) ==
  /\ log' = [log EXCEPT ![r] = <<Event("write", FALSE), Event("response", TRUE)>>]
  /\ pc' = [pc EXCEPT ![r] = "done"]
  /\ resp' = [resp EXCEPT ![r] = RespServerError(op[r])]
  /\ loc' = [loc EXCEPT ![r] = NoLoc]

\* storeCodeInDb(user._id, code, 'reactivationCode', ..) inside
\* sendReactivationTokenEmail
StoreCode(doc) == [doc EXCEPT !.reactivationCode = TRUE]

\* ------------------------------------------------------ deactivateAccount
\* the code of deactivateAccount / adminDeactivateUser from findById to the
\* field assignments (the two handlers share it verbatim)
DeactivateRead(r, uid) ==
  LET u == FindById(uid) IN
    IF u = NoUser
    THEN /\ Reject(r, RespNotFound)
         /\ UNCHANGED nextToken
    ELSE IF AlreadyDeactivated(users[u])
    THEN /\ Reject(r, RespConflict)
         /\ UNCHANGED nextToken
    ELSE /\ GenerateToken
         /\ Proceed(r, [NoLoc EXCEPT !.uid = u, !.tok = nextToken,
                                     !.exp = TokenExpiry(now), !.at = now])

\* deactivateAccount with req.user.id = uid, up to its write
DeactivateAccount(r, uid) ==
  /\ Begin(r, "deactivate", Unset)
  /\ IF uid = ""
     THEN /\ Reject(r, RespUserIdRequired)
          /\ UNCHANGED nextToken
     ELSE DeactivateRead(r, uid)
  /\ UNCHANGED <<users, now, faulty, mailer, env, alert, issued, spent>>

\* await user.save(), then the notifications and the response
DeactivateSave(r) ==
  /\ pc[r] = "write"
  /\ op[r] \in {"deactivate", "adminDeactivate"}
  /\ \E saved \in WriteOutcomes :
       IF saved
       THEN /\ users' = [users EXCEPT ![loc[r].uid] = StoreCode(DeactivatedDoc(@, loc[r]))]
            /\ NotifyAndRespond(r)
            /\ Issue(loc[r].uid, loc[r].tok)
       ELSE /\ WriteFails(r)
            /\ UNCHANGED <<users, issued>>
  /\ UNCHANGED <<now, nextToken, faulty, mailer, env, alert, op, token, spent>>

\* ---------------------------------------------------- adminDeactivateUser
\* adminDeactivateUser with req.user.role = role and req.body.userId = uid,
\* up to its write
AdminDeactivateUser(r, role, uid) ==
  /\ Begin(r, "adminDeactivate", Unset)
  /\ IF ~IsAdmin(role)
     THEN /\ Reject(r, RespForbidden)
          /\ UNCHANGED nextToken
     ELSE IF uid = ""
     THEN /\ Reject(r, RespUserIdRequired)
          /\ UNCHANGED nextToken
     ELSE DeactivateRead(r, uid)
  /\ UNCHANGED <<users, now, faulty, mailer, env, alert, issued, spent>>

\* ------------------------------------------------------ reactivateAccount
\* reactivateAccount with the token tok, from the token check to the
\* construction of the update
ReactivateAccount(r, tok) ==
  /\ Begin(r, "reactivate", tok)
  /\ LET u == FindByToken(tok) IN
       IF tok = Unset
       THEN Reject(r, RespMissingToken)
       ELSE IF u = NoUser
       THEN Reject(r, RespInvalidToken)
       ELSE IF TokenExpired(users[u], now)
       THEN Reject(r, RespTokenExpired)
       ELSE Proceed(r, [NoLoc EXCEPT !.uid = u, !.at = now])
  /\ UNCHANGED <<users, now, nextToken, faulty, mailer, env, alert, issued, spent>>

\* updateOne({ _id: rawUser._id }, { $set, $unset }), the re-read by _id
\* (it fetches only fields no handler changes), the notifications and the
\* response
ReactivateUpdate(r) ==
  /\ pc[r] = "write"
  /\ op[r] = "reactivate"
  /\ \E updated \in WriteOutcomes :
       IF updated
       THEN /\ users' = [users EXCEPT ![loc[r].uid] = ReactivatedDoc(@, loc[r])]
            /\ NotifyAndRespond(r)
            /\ spent' = spent \cup {token[r]}
       ELSE /\ WriteFails(r)
            /\ UNCHANGED <<users, spent>>
  /\ UNCHANGED <<now, nextToken, faulty, mailer, env, alert, op, token, issued>>

\* ---------------------------------------------------- requestReactivation
\* requestReactivation with req.body.email = e, from the email check to the
\* construction of the update
RequestReactivation(r, e) ==
  /\ Begin(r, "requestReactivation", Unset)
  /\ LET u == FindDeactivatedByEmail(e) IN
       IF e = ""
       THEN /\ Reject(r, RespEmailRequired)
            /\ UNCHANGED nextToken
       ELSE IF u = NoUser
       THEN /\ Reject(r, RespRequestNoMatch)
            /\ UNCHANGED nextToken
       ELSE /\ GenerateToken
            /\ Proceed(r, [NoLoc EXCEPT !.uid = u, !.tok = nextToken,
                                        !.exp = TokenExpiry(now), !.at = now,
                                        !.att = NextAttempts(users[u])])
  /\ UNCHANGED <<users, now, faulty, mailer, env, alert, issued, spent>>

\* updateOne({ _id: user._id }, { $set }), then the mail and the response
RequestUpdate(r) ==
  /\ pc[r] = "write"
  /\ op[r] = "requestReactivation"
  /\ \E updated \in WriteOutcomes :
       IF updated
       THEN /\ users' = [users EXCEPT ![loc[r].uid] = StoreCode(RotatedDoc(@, loc[r]))]
            /\ NotifyAndRespond(r)
            /\ Issue(loc[r].uid, loc[r].tok)
       ELSE /\ WriteFails(r)
            /\ UNCHANGED <<users, issued>>
  /\ UNCHANGED <<now, nextToken, faulty, mailer, env, alert, op, token, spent>>

\* ------------------------------------------------------------ environment
\* the external inactivity job: ACTIVE -> AUTO_DEACTIVATED with a token
AutoDeactivate(u) ==
  /\ ~AlreadyDeactivated(users[u])
  /\ GenerateToken
  /\ Issue(u, nextToken)
  /\ users' = [users EXCEPT ![u] = [@ EXCEPT !.isAutoDeactivated = TRUE,
                                            !.autoDeactivatedAt = now,
                                            !.reactivationToken = nextToken,
                                            !.reactivationTokenExpires = TokenExpiry(now)]]
  /\ UNCHANGED <<now, faulty, mailer, env, alert, pc, op, token, loc, resp, log, spent>>

\* the clock
Tick ==
  /\ now + TickDays <= MaxTime
  /\ now' = now + TickDays
  /\ UNCHANGED <<users, nextToken, faulty, mailer, env, alert, pc, op, token, loc, resp, log, issued, spent>>

\* the tokens a client can present: none, one nobody issued, an issued one
PresentableTokens == {Unset, BogusToken} \cup UNION {issued[u] : u \in Users}

Next ==
  \/ \E r \in Reqs, uid \in UserIds : DeactivateAccount(r, uid)
  \/ \E r \in Reqs, role \in CallerRoles, uid \in UserIds : AdminDeactivateUser(r, role, uid)
  \/ \E r \in Reqs : DeactivateSave(r)
  \/ \E r \in Reqs, tok \in PresentableTokens : ReactivateAccount(r, tok)
  \/ \E r \in Reqs : ReactivateUpdate(r)
  \/ \E r \in Reqs, e \in RequestEmails : RequestReactivation(r, e)
  \/ \E r \in Reqs : RequestUpdate(r)
  \/ \E u \in Accounts : AutoDeactivate(u)
  \/ Tick

Spec == Init /\ [][Next]_vars

\* the same handlers with a mail transport and a store that can fail
FaultInit ==
  /\ users = [u \in Users |-> NewUser]
  /\ now = 0
  /\ nextToken = 1
  /\ faulty = TRUE
  /\ pc = [r \in Reqs |-> "idle"]
  /\ op = [r \in Reqs |-> "none"]
  /\ token = [r \in Reqs |-> Unset]
  /\ loc = [r \in Reqs |-> NoLoc]
  /\ resp = [r \in Reqs |-> NoResp]
  /\ log = [r \in Reqs |-> << >>]
  /\ issued = [u \in Users |-> {}]
  /\ spent = {}
  /\ mailer = NoMailer
  /\ env = DefaultEnv
  /\ alert = NoAlert

FaultSpec == FaultInit /\ [][Next]_vars

\* ------------------------------------------------- _sendMailWithFallback
\* before the module is loaded, in any environment
FallbackInit ==
  /\ users = [u \in Users |-> NewUser]
  /\ now = 0
  /\ nextToken = 1
  /\ faulty = FALSE
  /\ pc = [r \in Reqs |-> "idle"]
  /\ op = [r \in Reqs |-> "none"]
  /\ token = [r \in Reqs |-> Unset]
  /\ loc = [r \in Reqs |-> NoLoc]
  /\ resp = [r \in Reqs |-> NoResp]
  /\ log = [r \in Reqs |-> << >>]
  /\ issued = [u \in Users |-> {}]
  /\ spent = {}
  /\ mailer = [NoMailer EXCEPT !.pc = "boot"]
  /\ env \in {e \in Envs : e.nodeEnv = "production"}
  /\ alert = NoAlert

\* require('../utils/emailService'): the transporters are created and an
\* empty list makes the module throw
LoadEmailService ==
  /\ mailer.pc = "boot"
  /\ mailer' = [mailer EXCEPT
                  !.transporters = AvailableTransporters(env),
                  !.pc = IF StartupFails(AvailableTransporters(env))
                         THEN "fatal" ELSE "idle"]
  /\ UNCHANGED <<accountVars, env, alert>>

\* a call enters the loop with i = 0 and awaits the first sendMail
SendMailWithFallback ==
  /\ mailer.pc \in {"idle", "returned", "thrown"}
  /\ mailer' = [mailer EXCEPT !.pc = "loop", !.i = 1, !.lastError = NoError,
                              !.attempts = << >>, !.logs = << >>,
                              !.result = NoResult]
  /\ UNCHANGED <<accountVars, env, alert>>

\* the awaited sendMail resolves: return { success: true, .., provider };
\* a transport without a password cannot log in, its sendMail only rejects
SendMailResolves ==
  /\ mailer.pc = "loop"
  /\ TransporterAt(mailer.transporters, mailer.i).pass
  /\ LET t == TransporterAt(mailer.transporters, mailer.i) IN
       mailer' = [mailer EXCEPT
                    !.pc = "returned",
                    !.attempts = Append(@, [slot |-> t.slot, ok |-> TRUE]),
                    !.result = [success |-> TRUE,
                                provider |-> ProviderIdentity(t),
                                message |-> ""]]
  /\ UNCHANGED <<accountVars, env, alert>>

\* the awaited sendMail rejects with error: the catch block keeps the error
\* and logs it, then the loop goes to the next transporter or, after the
\* last one, the function throws new Error(interpretSmtpError(lastError))
SendMailRejects(error) ==
  /\ mailer.pc = "loop"
  /\ LET t == TransporterAt(mailer.transporters, mailer.i)
         last == mailer.i = Len(mailer.transporters)
     IN  mailer' = [mailer EXCEPT
                      !.pc = IF last THEN "thrown" ELSE "loop",
                      !.i = @ + 1,
                      !.lastError = error,
                      !.attempts = Append(@, [slot |-> t.slot, ok |-> FALSE]),
                      !.logs = Append(@, [name |-> TransporterNames[mailer.i],
                                          error |-> error]),
                      !.result = IF last
                                 THEN [success |-> FALSE, provider |-> "",
                                       message |-> InterpretSmtpError(error)]
                                 ELSE NoResult]
  /\ UNCHANGED <<accountVars, env, alert>>

FallbackNext ==
  \/ LoadEmailService
  \/ SendMailWithFallback
  \/ SendMailResolves
  \/ \E error \in SmtpErrors : SendMailRejects(error)

FallbackSpec == FallbackInit /\ [][FallbackNext]_vars

\* ------------------------------------------- the exported send functions
MaxAdmins == 2

MailKinds ==
  {"verification", "googleVerification", "passwordReset", "autoDeactivation",
   "reactivationConfirmation", "adminNotification", "reactivationToken",
   "deactivatedLoginAttempt"}

\* the sendMail errors the send functions are driven with: a refused login
\* and a timeout
MailErrors ==
  { SmtpError("EAUTH", 0, "", "Invalid login"),
    SmtpError("ETIMEDOUT", 0, "CONN", "Connection timeout") }

\* primaryTransporter.sendMail with primaryTransporter === null
NullTransporterError ==
  SmtpError("", 0, "", "Cannot read properties of null (reading 'sendMail')")

\* documents of the User collection: two admins the query finds, an admin
\* whose address is the static one, an unverified, a deactivated and an
\* auto-deactivated admin, a plain user, and an admin without an address
AdminDoc(email, role, verified, deactivated, autoDeactivated) ==
  [email |-> email, role |-> role, isVerified |-> verified,
   isDeactivated |-> deactivated, isAutoDeactivated |-> autoDeactivated]

AdminCandidates ==
  { AdminDoc("admin@x.com", "admin", TRUE, FALSE, FALSE),
    AdminDoc("root@x.com", "superadmin", TRUE, FALSE, FALSE),
    AdminDoc("ecopulse00@gmail.com", "admin", TRUE, FALSE, FALSE),
    AdminDoc("new@x.com", "admin", FALSE, FALSE, FALSE),
    AdminDoc("left@x.com", "admin", TRUE, TRUE, FALSE),
    AdminDoc("idle@x.com", "superadmin", TRUE, FALSE, TRUE),
    AdminDoc("a@x.com", "user", TRUE, FALSE, FALSE),
    AdminDoc("", "admin", TRUE, FALSE, FALSE) }

\* a query that does not look at the deactivation flags
MatchesAdminQuery_AnyStatus(d) ==
  d.role \in {"admin", "superadmin"} /\ d.isVerified

\* User.find({ role: { $in: ['admin', 'superadmin'] }, isVerified: true,
\*   isDeactivated: { $ne: true }, isAutoDeactivated: { $ne: true } })
MatchesAdminQuery(d) ==
  /\ d.role \in {"admin", "superadmin"}
  /\ d.isVerified
  /\ ~d.isDeactivated
  /\ ~d.isAutoDeactivated

\* adminEmails.includes(email)
Includes(list, x) == \E k \in DOMAIN list : list[k] = x

\* adminUsers.forEach(admin => { if (admin.email &&
\*   !adminEmails.includes(admin.email)) adminEmails.push(admin.email) })
RECURSIVE PushAdmins(_, _)
PushAdmins(list, docs) ==
  IF docs = {} THEN list
  ELSE LET d == CHOOSE x \in docs : TRUE
       IN  PushAdmins(IF d.email # "" /\ ~Includes(list, d.email)
                      THEN Append(list, d.email) ELSE list,
                      docs \ {d})

\* [...new Set(list)]: the first occurrence of each element, in order
RECURSIVE Deduplicate(_)
Deduplicate(list) ==
  IF list = << >> THEN << >>
  ELSE LET front == Deduplicate(SubSeq(list, 1, Len(list) - 1))
           x == list[Len(list)]
       IN  IF Includes(front, x) THEN front ELSE Append(front, x)

\* the recipients after a query that answered
AdminEmails(collection) ==
  Deduplicate(PushAdmins(StaticAdminEmails,
                         {d \in collection : MatchesAdminQuery(d)}))

\* a fallback that writes to everyone the rich alert was addressed to
FallbackRecipients_AllAdmins(adminEmails) == adminEmails

\* to: staticAdminEmails.join(',') in the minimal fallback
FallbackRecipients(adminEmails) == StaticAdminEmails

\* only sendPasswordResetEmail calls _sendMailWithFallback; every other
\* function calls primaryTransporter.sendMail
UsesFallback(kind) == kind = "passwordReset"

\* functions that all end their catch block with a throw
ThrowsOnFailure_Always(kind) == TRUE

\* the catch blocks and parameter checks of sendAdminNotification and
\* sendDeactivatedLoginAttempt return { success: false, .. }, those of the
\* other functions throw
ThrowsOnFailure(kind) ==
  kind \notin {"adminNotification", "deactivatedLoginAttempt"}

\* the field storeCodeInDb writes before the mail is sent
CodeField(kind) ==
  CASE kind \in {"verification", "googleVerification"} -> "verificationCode"
    [] kind \in {"autoDeactivation", "reactivationToken"} -> "reactivationCode"
    [] OTHER -> ""

\* the message of the parameter check at the head of each function
InvalidMessage(kind) ==
  CASE kind = "verification" ->
         "Invalid user object provided for verification email."
    [] kind = "googleVerification" ->
         "Invalid user object provided for Google verification email."
    [] kind = "passwordReset" ->
         "Missing required parameters for password reset email."
    [] kind = "autoDeactivation" ->
         "Missing required parameters for auto-deactivation email."
    [] kind = "reactivationConfirmation" ->
         "Invalid user object for reactivation confirmation."
    [] kind = "adminNotification" ->
         "Invalid user object provided for admin notification."
    [] kind = "reactivationToken" ->
         "Missing required parameters for reactivation token email."
    [] OTHER -> "Invalid user object provided for deactivated login alert."

\* the message of the catch block around primaryTransporter.sendMail
FailureMessage(kind, error) ==
  CASE kind = "verification" ->
         "Failed to send verification email: " \o InterpretSmtpError(error)
    [] kind = "googleVerification" ->
         "Failed to send Google verification email: "
           \o InterpretSmtpError(error)
    [] kind = "autoDeactivation" ->
         "Failed to send auto-deactivation email: "
           \o InterpretSmtpError(error)
    [] kind = "reactivationConfirmation" ->
         "Failed to send reactivation confirmation email: "
           \o InterpretSmtpError(error)
    [] kind = "reactivationToken" ->
         "Failed to send reactivation token email: "
           \o InterpretSmtpError(error)
    [] OTHER -> "Failed to send admin notification email."

\* process.env.ADMIN_EMAIL || process.env.EMAIL_USER
HasAdminEmail(e) == e.adminEmail \/ e.emailUser
AdminEmail(e) == IF e.adminEmail THEN "ops@x.com" ELSE EmailUser

\* the to: of the mail a function sends
MailTo(kind, e) ==
  IF kind = "adminNotification" THEN <<AdminEmail(e)>> ELSE <<UserEmail("u1")>>

\* one call of sendMail: the transporter it went to (none when the
\* transporter is null), the addressees, the body and whether it resolved
Attempt(slot, to, body, ok) ==
  [slot |-> slot, to |-> to, body |-> body, ok |-> ok]

\* primaryTransporter !== null
HasPrimaryTransporter(list) == \E k \in DOMAIN list : list[k].slot = "primary"

\* return { success: .. } and throw new Error(..)
Returned(a, ok, msg) ==
  [a EXCEPT !.pc = "returned", !.success = ok, !.error = msg]
Threw(a, msg) == [a EXCEPT !.pc = "threw", !.success = FALSE, !.error = msg]
Failed(a, msg) ==
  IF ThrowsOnFailure(a.kind) THEN Threw(a, msg) ELSE Returned(a, FALSE, msg)

\* before the module is loaded, in any production environment and with any
\* few documents in the User collection
MailInit ==
  /\ users = [u \in Users |-> NewUser]
  /\ now = 0
  /\ nextToken = 1
  /\ faulty = FALSE
  /\ pc = [r \in Reqs |-> "idle"]
  /\ op = [r \in Reqs |-> "none"]
  /\ token = [r \in Reqs |-> Unset]
  /\ loc = [r \in Reqs |-> NoLoc]
  /\ resp = [r \in Reqs |-> NoResp]
  /\ log = [r \in Reqs |-> << >>]
  /\ issued = [u \in Users |-> {}]
  /\ spent = {}
  /\ mailer = [NoMailer EXCEPT !.pc = "boot"]
  /\ env \in {e \in Envs : e.nodeEnv = "production" /\ e.backupUser = "backup@x.com"}
  /\ \E c \in SUBSET AdminCandidates :
       /\ Cardinality(c) <= MaxAdmins
       /\ alert = [NoAlert EXCEPT !.collection = c]

\* a call of the send function kind, up to its first await: the parameter
\* check, storeCodeInDb (which never throws and may store nothing), and for
\* sendAdminNotification the recipient check
CallMail(kind, valid, stored) ==
  /\ mailer.pc = "idle"
  /\ alert.pc \in {"idle", "returned", "threw"}
  /\ LET a == [NoAlert EXCEPT !.collection = alert.collection, !.kind = kind]
     IN  IF ~valid
         THEN /\ alert' = Failed(a, InvalidMessage(kind))
              /\ UNCHANGED <<users, mailer>>
         ELSE IF kind = "adminNotification" /\ ~HasAdminEmail(env)
         THEN /\ alert' = Returned(a, FALSE, "Admin email recipient not configured.")
              /\ UNCHANGED <<users, mailer>>
         ELSE IF kind = "deactivatedLoginAttempt"
         THEN /\ alert' = [a EXCEPT !.pc = "query",
                                    !.adminEmails = StaticAdminEmails]
              /\ UNCHANGED <<users, mailer>>
         ELSE IF UsesFallback(kind)
         THEN /\ alert' = [a EXCEPT !.pc = "fallback"]
              /\ mailer' = [mailer EXCEPT !.pc = "loop", !.i = 1]
              /\ UNCHANGED users
         ELSE /\ alert' = [a EXCEPT !.pc = "primary"]
              /\ users' = IF stored /\ CodeField(kind) # ""
                          THEN [users EXCEPT !["u1"][CodeField(kind)] = TRUE]
                          ELSE users
              /\ UNCHANGED mailer
  /\ UNCHANGED <<now, nextToken, faulty, pc, op, token, loc, resp, log,
                 issued, spent, env>>

\* the admin query answers or throws; catch (dbError) keeps the static list
QueryAdmins(answered) ==
  /\ alert.pc = "query"
  /\ LET found == IF answered THEN AdminEmails(alert.collection)
                  ELSE alert.adminEmails
         a == [alert EXCEPT !.query = IF answered THEN "ok" ELSE "failed",
                            !.adminEmails = found]
     IN  alert' = IF found = << >>
                  THEN Returned(a, FALSE, "No admin recipients configured for this alert.")
                  ELSE [a EXCEPT !.pc = "rich"]
  /\ UNCHANGED <<accountVars, mailer, env>>

\* the addressees and the body of the sendMail call the function is in
CurrentTo ==
  CASE alert.pc = "rich" -> alert.adminEmails
    [] alert.pc = "plain" -> FallbackRecipients(alert.adminEmails)
    [] OTHER -> MailTo(alert.kind, env)
CurrentBody == IF alert.pc = "plain" THEN "text" ELSE "html"

\* await primaryTransporter.sendMail(..) resolves: return { success: true }
\* or, in the minimal fallback, { success: false, error: ".. attempted." }
PrimaryResolves ==
  /\ alert.pc \in {"primary", "rich", "plain"}
  /\ HasPrimaryTransporter(mailer.transporters)
  /\ LET a == [alert EXCEPT !.attempts =
                 Append(@, Attempt("primary", CurrentTo, CurrentBody, TRUE))]
     IN  alert' = IF alert.pc = "plain"
                  THEN Returned(a, FALSE, "Failed to send full alert, minimal fallback attempted.")
                  ELSE Returned(a, TRUE, "")
  /\ UNCHANGED <<accountVars, mailer, env>>

\* the catch block after a sendMail that did not resolve: the rich alert
\* goes on to its minimal fallback, the fallback returns, the other
\* functions throw or return their failure
AfterFailedSend(slot, error) ==
  LET a == [alert EXCEPT !.attempts =
              Append(@, Attempt(slot, CurrentTo, CurrentBody, FALSE))]
  IN  alert' = CASE alert.pc = "rich" -> [a EXCEPT !.pc = "plain"]
                 [] alert.pc = "plain" ->
                      Returned(a, FALSE, "Failed to send primary and fallback alerts.")
                 [] OTHER -> Failed(a, FailureMessage(alert.kind, error))

\* await primaryTransporter.sendMail(..) rejects with error
PrimaryRejects(error) ==
  /\ alert.pc \in {"primary", "rich", "plain"}
  /\ HasPrimaryTransporter(mailer.transporters)
  /\ AfterFailedSend("primary", error)
  /\ UNCHANGED <<accountVars, mailer, env>>

\* primaryTransporter is null (only the backup is configured): the call
\* throws a TypeError inside the try block
PrimaryMissing ==
  /\ alert.pc \in {"primary", "rich", "plain"}
  /\ ~HasPrimaryTransporter(mailer.transporters)
  /\ AfterFailedSend("none", NullTransporterError)
  /\ UNCHANGED <<accountVars, mailer, env>>

\* sendPasswordResetEmail after await _sendMailWithFallback(mailOptions):
\* return result, or catch (error) { throw error }
FallbackSettles ==
  /\ alert.pc = "fallback"
  /\ mailer.pc \in {"returned", "thrown"}
  /\ LET a == [alert EXCEPT !.attempts =
                 [k \in DOMAIN mailer.attempts |->
                    Attempt(mailer.attempts[k].slot, MailTo(alert.kind, env),
                            "html", mailer.attempts[k].ok)]]
     IN  alert' = IF mailer.result.success
                  THEN Returned(a, TRUE, "")
                  ELSE Threw(a, mailer.result.message)
  /\ mailer' = [NoMailer EXCEPT !.transporters = mailer.transporters]
  /\ UNCHANGED <<accountVars, env>>

MailNext ==
  \/ LoadEmailService
  \/ \E kind \in MailKinds, valid \in BOOLEAN, stored \in BOOLEAN :
       CallMail(kind, valid, stored)
  \/ \E answered \in BOOLEAN : QueryAdmins(answered)
  \/ PrimaryResolves
  \/ \E error \in MailErrors : PrimaryRejects(error)
  \/ PrimaryMissing
  \/ SendMailResolves
  \/ \E error \in MailErrors : SendMailRejects(error)
  \/ FallbackSettles

MailSpec == MailInit /\ [][MailNext]_vars

\* ------------------------------- checkAccountStatus, checkDeactivatedAccount
\* email.toLowerCase() on the request emails
EmailToLowerCase(e) == IF e = "A@x.com" THEN "a@x.com" ELSE e

\* usersCollection.findOne({ email })
FindByEmail(email) ==
  IF \E u \in Users : UserEmail(u) = email
  THEN CHOOSE u \in Users : UserEmail(u) = email
  ELSE NoUser

\* the awaited findOne answers or throws
QueryOutcomes == IF faulty THEN BOOLEAN ELSE {TRUE}

\* res.status(st).json(body): body holds exactly the fields of the JSON
StatusResponse(st, body) == [status |-> st, body |-> body]

\* { success: false, message: "Email is required" }
EmailRequiredBody == [success |-> FALSE, message |-> "Email is required"]

\* the body for an email without an account
NotFoundBody ==
  [success |-> TRUE, exists |-> FALSE,
   message |-> "No account found with this email.",
   isActive |-> FALSE, isGoogleLinked |-> FALSE, hasPasswordSet |-> FALSE,
   isAutoDeactivated |-> FALSE, tokenExpired |-> FALSE,
   lockoutRemaining |-> 0]

\* (later - earlier) / 1000 with both times in days: the seconds between them
SecondsBetween(earlier, later) == (later - earlier) * 24 * 60 * 60

\* let lockoutRemaining = 0; if (user.lockoutUntil && lockoutUntil > now)
\*   lockoutRemaining = Math.max(0, Math.round((lockoutUntil - now) / 1000))
LockoutRemaining(doc, t) ==
  IF doc.lockoutUntil # Unset /\ doc.lockoutUntil > t
  THEN SecondsBetween(t, doc.lockoutUntil)
  ELSE 0

\* Math.ceil(seconds / 60)
CeilMinutes(seconds) == (seconds + 59) \div 60

\* !user.reactivationToken || !user.reactivationTokenExpires ||
\*   new Date(user.reactivationTokenExpires) < now
StatusTokenExpired(doc, t) ==
  \/ doc.reactivationToken = Unset
  \/ doc.reactivationTokenExpires = Unset
  \/ doc.reactivationTokenExpires < t

\* case A: the body for an auto-deactivated account
AutoDeactivatedBody(doc, t) ==
  [success |-> TRUE, exists |-> TRUE, isActive |-> FALSE,
   isAutoDeactivated |-> TRUE, deactivatedAt |-> doc.autoDeactivatedAt,
   tokenExpired |-> StatusTokenExpired(doc, t),
   isGoogleLinked |-> doc.googleId # "",
   hasPasswordSet |-> doc.password # "",
   lockoutRemaining |-> LockoutRemaining(doc, t),
   message |-> "This account has been deactivated due to inactivity."
                 \o (IF LockoutRemaining(doc, t) > 0
                     THEN " Reactivation is locked for "
                            \o ToString(CeilMinutes(LockoutRemaining(doc, t)))
                            \o " more minutes."
                     ELSE "")]

\* case B: the body for a manually deactivated or active account
ManualOrActiveBody(doc, t) ==
  [success |-> TRUE, exists |-> TRUE,
   isActive |-> ~doc.isDeactivated /\ ~doc.isAutoDeactivated,
   isAutoDeactivated |-> FALSE,
   isGoogleLinked |-> doc.googleId # "",
   hasPasswordSet |-> doc.password # "",
   lockoutRemaining |-> 0,
   message |-> IF ~doc.isDeactivated /\ ~doc.isAutoDeactivated
               THEN "Account is active."
               ELSE "This account has been manually deactivated."]

\* a handler that answers with the document's password next to the flags
StatusBody_WithPassword(doc, t) ==
  [password |-> doc.password] @@ ManualOrActiveBody(doc, t)

\* the body for an existing account
StatusBody(doc, t) ==
  IF doc.isAutoDeactivated
  THEN AutoDeactivatedBody(doc, t)
  ELSE ManualOrActiveBody(doc, t)

\* the catch block: error: NODE_ENV === 'development' ? error.message :
\* undefined, and JSON drops an undefined field
StatusErrorBody(e) ==
  IF e.nodeEnv = "development"
  THEN [success |-> FALSE, message |-> "Server error checking account status.",
        error |-> StoreErrorMessage]
  ELSE [success |-> FALSE, message |-> "Server error checking account status."]

\* const defaultResponse = { success: true, isDeactivated: false }
DefaultResponse == [success |-> TRUE, isDeactivated |-> FALSE]

\* user.reactivationTokenExpires && new Date(..) < new Date()
DeactivatedTokenExpired(doc, t) ==
  doc.reactivationTokenExpires # Unset /\ doc.reactivationTokenExpires < t

\* Math.floor((reactivationTokenExpires - new Date()) / (1000 * 60 * 60 * 24)),
\* NaN (null in the JSON) without an expiry.  This new Date() is a second
\* reading of the clock, after the one of the expiry test at time t: later
\* tells whether the clock has moved on between the two, by less than a day
DaysRemaining(doc, t, later) ==
  IF doc.reactivationTokenExpires = Unset THEN Unset
  ELSE IF later THEN doc.reactivationTokenExpires - t - 1
  ELSE doc.reactivationTokenExpires - t

\* the body for a deactivated or auto-deactivated account
DeactivatedBody(doc, t, later) ==
  [success |-> TRUE, isDeactivated |-> TRUE,
   tokenExpired |-> DeactivatedTokenExpired(doc, t),
   lockoutRemaining |-> IF DeactivatedTokenExpired(doc, t) THEN 0
                        ELSE DaysRemaining(doc, t, later)]

\* the times a lockout can end at
LockoutTimes == {Unset, TickDays}

\* the account documents the handlers and the inactivity job leave behind:
\* active, manually deactivated, auto-deactivated, and both flags set
ActiveDoc == NewUser
ManualDoc ==
  DeactivatedDoc(NewUser, [NoLoc EXCEPT !.tok = 1, !.exp = TokenExpiry(0), !.at = 0])
AutoDoc ==
  [NewUser EXCEPT !.isAutoDeactivated = TRUE, !.autoDeactivatedAt = 0,
                  !.reactivationToken = 1,
                  !.reactivationTokenExpires = TokenExpiry(0)]
BothDoc ==
  DeactivatedDoc(AutoDoc, [NoLoc EXCEPT !.tok = 1, !.exp = TokenExpiry(0), !.at = 0])

\* each of them with or without a Google link, a password hash and a lockout
StatusDocs ==
  { [d EXCEPT !.googleId = g, !.password = p, !.lockoutUntil = l] :
      d \in {ActiveDoc, ManualDoc, AutoDoc, BothDoc},
      g \in {"", "g-108"}, p \in {"", "$2b$10$N9qo8uLOickgx2ZMRZoMye"},
      l \in LockoutTimes }

\* the store holds one of these documents for u1; the store can fail; the
\* process runs in production or in development
StatusInit ==
  /\ \E d \in StatusDocs :
       /\ users = [u \in Users |-> IF u = "u1" THEN d ELSE NewUser]
       /\ issued = [u \in Users |->
                      IF u = "u1" /\ d.reactivationToken # Unset
                      THEN {d.reactivationToken} ELSE {}]
       /\ nextToken = IF d.reactivationToken = Unset THEN 1 ELSE 2
  /\ now = 0
  /\ faulty = TRUE
  /\ pc = [r \in Reqs |-> "idle"]
  /\ op = [r \in Reqs |-> "none"]
  /\ token = [r \in Reqs |-> Unset]
  /\ loc = [r \in Reqs |-> NoLoc]
  /\ resp = [r \in Reqs |-> NoResp]
  /\ log = [r \in Reqs |-> << >>]
  /\ spent = {}
  /\ mailer = NoMailer
  /\ env \in {[DefaultEnv EXCEPT !.nodeEnv = n] : n \in {"production", "development"}}
  /\ alert = NoAlert

\* the 200 body of checkAccountStatus for the email e: findOne({ email:
\* email.toLowerCase() }) and the body for what it found
StatusReport(e) ==
  LET u == FindByEmail(EmailToLowerCase(e)) IN
    IF u = NoUser THEN NotFoundBody ELSE StatusBody(users[u], now)

\* checkAccountStatus with req.body.email = e: the email check, the
\* projected findOne by lower-cased email, and the response
CheckAccountStatus(r, e, answered) ==
  /\ Begin(r, "checkStatus", Unset)
  /\ Reject(r, IF e = ""
               THEN StatusResponse(400, EmailRequiredBody)
               ELSE IF ~answered
               THEN StatusResponse(500, StatusErrorBody(env))
               ELSE StatusResponse(200, StatusReport(e)))
  /\ UNCHANGED <<users, now, nextToken, faulty, mailer, env, alert, issued, spent>>

\* checkDeactivatedAccount with req.body.email = e: the email check,
\* findOne({ email }) and the response; the catch block answers 200 too.
\* The response reads the clock twice (lines 553 and 561)
CheckDeactivatedAccount(r, e, answered, later) ==
  /\ Begin(r, "checkDeactivated", Unset)
  /\ LET u == FindByEmail(e) IN
       Reject(r, IF e = ""
                 THEN StatusResponse(400, EmailRequiredBody)
                 ELSE IF ~answered \/ u = NoUser
                 THEN StatusResponse(200, DefaultResponse)
                 ELSE IF users[u].isDeactivated \/ users[u].isAutoDeactivated
                 THEN StatusResponse(200, DeactivatedBody(users[u], now, later))
                 ELSE StatusResponse(200, DefaultResponse))
  /\ UNCHANGED <<users, now, nextToken, faulty, mailer, env, alert, issued, spent>>

StatusNext ==
  \/ \E r \in Reqs, e \in RequestEmails, answered \in QueryOutcomes :
       CheckAccountStatus(r, e, answered)
  \/ \E r \in Reqs, e \in RequestEmails, answered \in QueryOutcomes,
          later \in BOOLEAN :
       CheckDeactivatedAccount(r, e, answered, later)
  \/ Tick

StatusSpec == StatusInit /\ [][StatusNext]_vars

\* ------------------------------- requests on an account deactivated earlier
\* a token generated before the calls the model follows: no later
\* crypto.randomBytes(32) repeats it
OldToken == MaxTokens + 1

\* u1 was deactivated at time 0 and holds the token it was mailed then
RequestInit ==
  /\ users = [u \in Users |->
                IF u = "u1"
                THEN DeactivatedDoc(NewUser, [NoLoc EXCEPT !.tok = OldToken,
                                                           !.exp = TokenExpiry(0),
                                                           !.at = 0])
                ELSE NewUser]
  /\ issued = [u \in Users |-> IF u = "u1" THEN {OldToken} ELSE {}]
  /\ now = 0
  /\ nextToken = 1
  /\ faulty = FALSE
  /\ pc = [r \in Reqs |-> "idle"]
  /\ op = [r \in Reqs |-> "none"]
  /\ token = [r \in Reqs |-> Unset]
  /\ loc = [r \in Reqs |-> NoLoc]
  /\ resp = [r \in Reqs |-> NoResp]
  /\ log = [r \in Reqs |-> << >>]
  /\ spent = {}
  /\ mailer = NoMailer
  /\ env = DefaultEnv
  /\ alert = NoAlert

\* requestReactivation and reactivateAccount calls on that account
RequestNext ==
  \/ \E r \in Reqs, e \in RequestEmails : RequestReactivation(r, e)
  \/ \E r \in Reqs : RequestUpdate(r)
  \/ \E r \in Reqs, tok \in PresentableTokens : ReactivateAccount(r, tok)
  \/ \E r \in Reqs : ReactivateUpdate(r)
  \/ Tick

RequestSpec == RequestInit /\ [][RequestNext]_vars

\* ----------------------------------------- every handler, failing lookups
\* the first awaited store call of the handler o (findById, findOne), which
\* is inside the outer try, rejects:
\* the outer catch block answers 500; reactivateAccount gets that far only
\* with a token
LookupFails(r, o, tok) ==
  /\ faulty
  /\ (o = "reactivate") <=> (tok # Unset)
  /\ Begin(r, o, tok)
  /\ Reject(r, RespServerError(o))
  /\ UNCHANGED <<users, now, nextToken, faulty, mailer, env, alert, issued, spent>>

\* all six handlers of the controller, with a store and a mail transport
\* that can fail at every call
LiveNext ==
  \/ \E r \in Reqs, uid \in UserIds : DeactivateAccount(r, uid)
  \/ \E r \in Reqs, role \in CallerRoles, uid \in UserIds : AdminDeactivateUser(r, role, uid)
  \/ \E r \in Reqs : DeactivateSave(r)
  \/ \E r \in Reqs, tok \in PresentableTokens : ReactivateAccount(r, tok)
  \/ \E r \in Reqs : ReactivateUpdate(r)
  \/ \E r \in Reqs, e \in RequestEmails : RequestReactivation(r, e)
  \/ \E r \in Reqs : RequestUpdate(r)
  \/ \E r \in Reqs, tok \in PresentableTokens \ {BogusToken},
          o \in {"deactivate", "adminDeactivate", "reactivate", "requestReactivation"} :
       LookupFails(r, o, tok)
  \/ \E r \in Reqs, e \in RequestEmails, answered \in QueryOutcomes :
       CheckAccountStatus(r, e, answered)
  \/ \E r \in Reqs, e \in RequestEmails, answered \in QueryOutcomes,
          later \in BOOLEAN :
       CheckDeactivatedAccount(r, e, answered, later)

\* an awaited store write and the awaited sends after it settle (the driver
\* and the mail transport time out), and the event loop then runs the rest
\* of the handler
LiveSpec ==
  /\ FaultInit
  /\ [][LiveNext]_vars
  /\ \A r \in Reqs :
       /\ WF_vars(DeactivateSave(r))
       /\ WF_vars(ReactivateUpdate(r))
       /\ WF_vars(RequestUpdate(r))

\* the number of res.status(..).json(..) calls among the events of r's
\* handler from its write on
ResponsesSent(r) ==
  Cardinality({i \in DOMAIN log[r] : log[r][i].kind = "response"})

TypeOK ==
  /\ now \in 0..MaxTime
  /\ nextToken \in 1..(MaxTokens + 1)
  /\ \A u \in Users : users[u].reactivationToken \in {Unset, OldToken} \cup Tokens

\* ================================================================ claims
IsDeactivated(doc) == doc.isDeactivated \/ doc.isAutoDeactivated
Done(r, o) == pc[r] = "done" /\ op[r] = o
HoldsToken(t) == \E u \in Users : users[u].reactivationToken = t

\* C1: of two concurrent reactivate calls with the same valid token exactly
\* one succeeds and the other returns InvalidToken.  Both calls have ended
\* here; two calls that both read the token before either wrote it are the
\* only way for both to hold a response for the same token of which one is
\* a success.
C1_ExactlyOneReactivationSucceeds ==
  \A r1 \in Reqs, r2 \in Reqs :
    ( /\ r1 # r2
      /\ Done(r1, "reactivate") /\ Done(r2, "reactivate")
      /\ token[r1] \in Tokens /\ token[r1] = token[r2]
      /\ resp[r1].success )
    => resp[r2] = RespInvalidToken

\* C2: a reactivation token is single-use: a reactivate call that begins
\* after a reactivate call with the same token has succeeded fails with
\* InvalidToken and never reaches its write.
C2_TokenSingleUse ==
  [][ \A r \in Reqs, t \in Tokens :
        (t \in spent /\ ReactivateAccount(r, t))
        => (resp'[r] = RespInvalidToken /\ pc'[r] = "done") ]_vars

C2_Witness ==
  \E r \in Reqs :
    /\ Done(r, "reactivate")
    /\ token[r] \in spent
    /\ resp[r] = RespInvalidToken

\* C3: reactivate with a token that matches a user whose expiry is earlier
\* than now answers TokenExpired, reactivate with a token no user holds
\* answers InvalidToken, the two answers differ, and in both cases the
\* handler ends without changing any user record.
C3_ExpiredAndInvalidRejected ==
  [][ \A r \in Reqs, t \in Tokens \cup {BogusToken} :
        ReactivateAccount(r, t)
        => /\ ( \E u \in Users : /\ users[u].reactivationToken = t
                                 /\ users[u].reactivationTokenExpires # Unset
                                 /\ users[u].reactivationTokenExpires < now )
              => ( resp'[r] = RespTokenExpired /\ pc'[r] = "done" /\ users' = users )
           /\ ( ~HoldsToken(t) )
              => ( resp'[r] = RespInvalidToken /\ pc'[r] = "done" /\ users' = users )
           /\ RespTokenExpired.message # RespInvalidToken.message
           /\ RespTokenExpired.error # RespInvalidToken.error ]_vars

C3_Witness ==
  \E r \in Reqs :
    /\ Done(r, "reactivate")
    /\ resp[r] = RespTokenExpired
    /\ \E u \in Users : /\ users[u].reactivationToken = token[r]
                        /\ users[u].reactivationTokenExpires < now

\* C4: on every user record the token and its expiry are both set or both
\* unset, and they are set exactly when the account is not ACTIVE.
C4_TokenIffNotActive ==
  \A u \in Users :
    /\ (users[u].reactivationToken # Unset) <=> (users[u].reactivationTokenExpires # Unset)
    /\ (users[u].reactivationToken # Unset) <=> IsDeactivated(users[u])

\* C5: deactivate on an existing ACTIVE user persists in its one write
\* isDeactivated = true, a token, and an expiry of the time of the call
\* plus 90 days.
C5_DeactivatePersists ==
  [][ \A r \in Reqs :
        /\ \A uid \in UserIds :
             (DeactivateAccount(r, uid) /\ pc'[r] = "write")
             => ( /\ uid \in Users /\ ~IsDeactivated(users[uid])
                  /\ loc'[r].uid = uid /\ loc'[r].at = now )
        /\ (op[r] = "deactivate" /\ DeactivateSave(r))
             => LET u == loc[r].uid IN
                  /\ users'[u].isDeactivated
                  /\ users'[u].reactivationToken \in Tokens
                  /\ users'[u].reactivationTokenExpires = loc[r].at + ReactivationDays
                  /\ resp'[r] = RespDeactivated ]_vars

C5_Witness ==
  \E r \in Reqs :
    /\ Done(r, "deactivate")
    /\ resp[r] = RespDeactivated
    /\ users["u1"].isDeactivated
    /\ users["u1"].reactivationToken \in Tokens
    /\ users["u1"].reactivationTokenExpires = now + ReactivationDays

\* C6: whenever a write issues a new token for an account, that token is the
\* one stored and no token issued for the account before is held by any
\* record any more, so reactivate's lookup accepts none of them.
C6_NewTokenRevokesOld ==
  [][ \A r \in Reqs :
        (DeactivateSave(r) \/ RequestUpdate(r))
        => LET u == loc[r].uid IN
             /\ users'[u].reactivationToken = loc[r].tok
             /\ \A t \in issued[u] \ {loc[r].tok} :
                  \A v \in Users : users'[v].reactivationToken # t ]_vars

C6_Witness ==
  \E u \in Users :
    /\ Cardinality(issued[u]) >= 2
    /\ users[u].reactivationToken \in issued[u]
    /\ \E t \in issued[u] : t # users[u].reactivationToken /\ ~HoldsToken(t)

C8_RequestResponsesIdentical ==
  \A r1 \in Reqs, r2 \in Reqs :
    ( /\ Done(r1, "requestReactivation") /\ resp[r1] # RespEmailRequired
      /\ Done(r2, "requestReactivation") /\ resp[r2] # RespEmailRequired )
    => resp[r1] = resp[r2]

\* C9: requestReactivation goes on to a write only when the email matches a
\* deactivated or auto-deactivated account; the write changes that record
\* only and stores a new token, an expiry of the request time plus 90 days,
\* reactivationAttempts incremented and lastReactivationAttempt; for any
\* other email the handler ends with no record changed and nothing sent.
C9_RequestFrame ==
  [][ \A r \in Reqs :
        /\ \A e \in RequestEmails \ {""} :
             RequestReactivation(r, e)
             => /\ users' = users
                /\ IF \E u \in Users : UserEmail(u) = e /\ IsDeactivated(users[u])
                   THEN /\ pc'[r] = "write"
                        /\ UserEmail(loc'[r].uid) = e
                        /\ loc'[r].at = now
                        /\ loc'[r].tok \notin UNION {issued[u] : u \in Users}
                        /\ loc'[r].att =
                             (IF users[loc'[r].uid].reactivationAttempts = Unset
                              THEN 0 ELSE users[loc'[r].uid].reactivationAttempts) + 1
                   ELSE /\ pc'[r] = "done"
                        /\ log'[r] = << >>
                        /\ nextToken' = nextToken
        /\ RequestUpdate(r)
             => LET u == loc[r].uid IN
                  /\ users'[u].reactivationToken = loc[r].tok
                  /\ users'[u].reactivationTokenExpires = loc[r].at + ReactivationDays
                  /\ users'[u].reactivationAttempts = loc[r].att
                  /\ users'[u].lastReactivationAttempt = loc[r].at
                  /\ \A v \in Users \ {u} : users'[v] = users[v] ]_vars

C9_Witness ==
  \E r \in Reqs :
    /\ Done(r, "requestReactivation")
    /\ resp[r] = RespRequestSent
    /\ users["u1"].reactivationAttempts = 1
    /\ users["u1"].lastReactivationAttempt = now
    /\ users["u1"].reactivationTokenExpires = now + ReactivationDays

\* the request q holds a TokenExpired answer for the token t of account u
ExpiredAnswer(q, u, t) ==
  /\ Done(q, "reactivate")
  /\ resp[q] = RespTokenExpired
  /\ token[q] = t
  /\ t \in issued[u]

\* C10: once reactivate has answered TokenExpired for an account's stored
\* token, a requestReactivation for the account stores a token different
\* from the expired one with an expiry of the request time plus 90 days, and
\* a reactivate that presents the stored token before that expiry goes on to
\* its write and succeeds.
C10_RenewAfterExpiry ==
  [][ \A r \in Reqs, q \in Reqs, u \in Users :
        /\ ( /\ RequestUpdate(r) /\ loc[r].uid = u
             /\ ExpiredAnswer(q, u, users[u].reactivationToken) )
           => /\ users'[u].reactivationToken # token[q]
              /\ users'[u].reactivationToken \in Tokens
              /\ users'[u].reactivationTokenExpires = loc[r].at + ReactivationDays
        /\ \A t \in Tokens :
             ( /\ ReactivateAccount(r, t)
               /\ users[u].reactivationToken = t
               /\ now <= users[u].reactivationTokenExpires
               /\ \E old \in issued[u] : old < t /\ ExpiredAnswer(q, u, old) )
             => (pc'[r] = "write" /\ loc'[r].uid = u)
        /\ (op[r] = "reactivate" /\ ReactivateUpdate(r) /\ loc[r].uid = u)
           => (resp'[r] = RespReactivated(u) /\ ~IsDeactivated(users'[u])) ]_vars

C10_Witness ==
  \E r \in Reqs, q \in Reqs :
    /\ ExpiredAnswer(q, "u1", token[q])
    /\ Done(r, "reactivate")
    /\ resp[r] = RespReactivated("u1")
    /\ token[r] \in issued["u1"]
    /\ token[q] < token[r]

\* the status a record's two flags encode; "BOTH" is no status of the spec
Status(doc) ==
  IF doc.isDeactivated /\ doc.isAutoDeactivated THEN "BOTH"
  ELSE IF doc.isDeactivated THEN "DEACTIVATED"
  ELSE IF doc.isAutoDeactivated THEN "AUTO_DEACTIVATED"
  ELSE "ACTIVE"

\* C11: isDeactivated and isAutoDeactivated are never both true on a user
\* record, also when the external auto-deactivation trigger interleaves with
\* a deactivate or adminDeactivate call on the same user.
C11_FlagsExclusive ==
  \A u \in Users : ~(users[u].isDeactivated /\ users[u].isAutoDeactivated)

\* C12: a step changes the status of an account only as ACTIVE -> DEACTIVATED
\* by the write of deactivate / adminDeactivate, or as DEACTIVATED -> ACTIVE
\* or AUTO_DEACTIVATED -> ACTIVE by the write of a reactivate; every other
\* step of a handler leaves every status unchanged (the external trigger's
\* own step is not a step of the handlers).
C12_OnlyListedTransitions ==
  [][ \A u \in Users :
        (Status(users'[u]) # Status(users[u]))
        => \/ AutoDeactivate(u)
           \/ \E r \in Reqs :
                /\ DeactivateSave(r) /\ loc[r].uid = u
                /\ Status(users[u]) = "ACTIVE"
                /\ Status(users'[u]) = "DEACTIVATED"
           \/ \E r \in Reqs :
                /\ ReactivateUpdate(r) /\ loc[r].uid = u
                /\ Status(users[u]) \in {"DEACTIVATED", "AUTO_DEACTIVATED"}
                /\ Status(users'[u]) = "ACTIVE" ]_vars

\* C13: adminDeactivate by a caller whose role is not admin answers
\* Forbidden (403, a status neither NotFound nor Conflict has) whatever the
\* target id and its state, and ends at once: no record changes, no token is
\* generated or issued, nothing is sent; an admin caller never gets Forbidden,
\* neither at the checks nor after the write.
C13_AdminDeactivateForbidden ==
  [][ \A r \in Reqs :
        /\ \A role \in CallerRoles, uid \in UserIds :
             AdminDeactivateUser(r, role, uid)
             => /\ (role # "admin")
                   => ( /\ resp'[r] = RespForbidden
                        /\ pc'[r] = "done"
                        /\ users' = users
                        /\ nextToken' = nextToken
                        /\ issued' = issued
                        /\ log'[r] = << >> )
                /\ (role = "admin") => resp'[r] # RespForbidden
                /\ RespForbidden.status = 403
                /\ RespForbidden.status \notin {RespNotFound.status, RespConflict.status}
        /\ (op[r] = "adminDeactivate" /\ DeactivateSave(r))
             => resp'[r] # RespForbidden ]_vars

C13_Witness ==
  \E r1 \in Reqs, r2 \in Reqs :
    /\ Done(r1, "adminDeactivate") /\ resp[r1] = RespForbidden
    /\ Done(r2, "adminDeactivate") /\ resp[r2] = RespAdminDeactivated
    /\ users["u1"].isDeactivated

\* the notifications in a request's event log
NotificationKinds(l) ==
  {l[i].kind : i \in DOMAIN l} \ {"write", "response"}

\* C14: for an admin caller adminDeactivate has the outcomes of deactivate on
\* the same target: it answers NotFound / Conflict under the same conditions,
\* and when it succeeds its write, its notifications (a reactivation-token
\* mail to the user and an admin notification) and their order are those of
\* a deactivate.
C14_AdminDeactivateAsDeactivate ==
  \A r \in Reqs :
    (Done(r, "adminDeactivate") /\ resp[r] \notin {RespForbidden, RespUserIdRequired})
    => \/ resp[r] \in {RespNotFound, RespConflict}
       \/ /\ resp[r].success
          /\ NotificationKinds(log[r]) = {"reactivation_token", "admin_notification"}
          /\ \E userOk \in BOOLEAN, adminOk \in BOOLEAN :
               log[r] = TailEvents("deactivate", userOk, adminOk)

\* the log l holds a notification send that failed
FailedSend(l) ==
  \E i \in DOMAIN l : l[i].kind \notin {"write", "response"} /\ ~l[i].ok

\* C15: when a notification send of deactivate, adminDeactivate, reactivate
\* or requestReactivation fails, the write the handler made before it stays
\* in the record and the handler still answers its 200 success body; the
\* failure does not reach the caller.
C15_SendFailureKeepsWrite ==
  [][ \A r \in Reqs :
        ( /\ DeactivateSave(r) \/ ReactivateUpdate(r) \/ RequestUpdate(r)
          /\ FailedSend(log'[r]) )
        => LET u == loc[r].uid IN
             /\ log'[r][1] = Event("write", TRUE)
             /\ pc'[r] = "done"
             /\ resp'[r] = SuccessResponse(op[r], u)
             /\ resp'[r].status = 200 /\ resp'[r].success
             /\ IF op[r] = "reactivate"
                THEN /\ ~IsDeactivated(users'[u])
                     /\ users'[u].reactivationToken = Unset
                     /\ token[r] \in spent'
                ELSE /\ users'[u].reactivationToken = loc[r].tok
                     /\ users'[u].reactivationTokenExpires = loc[r].exp
                     /\ (op[r] # "requestReactivation") => users'[u].isDeactivated
                     /\ (op[r] = "requestReactivation")
                          => users'[u].reactivationAttempts = loc[r].att ]_vars

C15_Witness ==
  \E r1 \in Reqs, r2 \in Reqs :
    /\ Done(r1, "deactivate") /\ resp[r1] = RespDeactivated
    /\ log[r1] = TailEvents("deactivate", FALSE, FALSE)
    /\ Done(r2, "requestReactivation") /\ resp[r2] = RespRequestSent
    /\ log[r2] = TailEvents("requestReactivation", FALSE, TRUE)
    /\ users["u1"].isDeactivated
    /\ users["u1"].reactivationAttempts = 1

\* C16: the response of deactivate and of reactivate does not wait for the
\* admin notification: in a request's event log the response is never
\* preceded by the completion of the admin notification send.
C16_ResponseNotAfterAdminAlert ==
  \A r \in Reqs :
    ((Done(r, "deactivate") \/ Done(r, "reactivate")) /\ resp[r].success)
    => ~ \E i \in DOMAIN log[r], j \in DOMAIN log[r] :
           /\ i < j
           /\ log[r][i].kind = "admin_notification"
           /\ log[r][j].kind = "response"

\* C17: no handler starts a notification send before its state write has
\* been persisted (a request that has not written yet has an empty log, and
\* every notification in a log comes after a successful write), and when the
\* write fails the handler sends nothing, changes nothing and answers 500.
C17_WriteBeforeNotify ==
  \A r \in Reqs :
    /\ (pc[r] = "write") => log[r] = << >>
    /\ \A i \in DOMAIN log[r] :
         (log[r][i].kind \notin {"write", "response"})
         => \E j \in DOMAIN log[r] : j < i /\ log[r][j] = Event("write", TRUE)
    /\ (\E i \in DOMAIN log[r] : log[r][i] = Event("write", FALSE))
         => ( /\ NotificationKinds(log[r]) = {}
              /\ resp[r] = RespServerError(op[r]) )

C17_Witness ==
  \E r1 \in Reqs, r2 \in Reqs :
    /\ Done(r1, "reactivate")
    /\ log[r1] = <<Event("write", FALSE), Event("response", TRUE)>>
    /\ resp[r1].status = 500
    /\ IsDeactivated(users["u1"])
    /\ Done(r2, "deactivate")
    /\ log[r2] = TailEvents("deactivate", TRUE, TRUE)

\* C18: a call of sendWithFallback attempts the configured transporters in
\* list order, the next one only after the one before has failed, none after
\* the first success and none twice: the attempts are a prefix of the list
\* that ends at the first success or, when all failed, at the end of the list.
C18_AttemptsInListOrder ==
  LET a == mailer.attempts
      ts == mailer.transporters
  IN  /\ Len(a) <= Len(ts)
      /\ \A k \in DOMAIN a : a[k].slot = ts[k].slot
      /\ \A k \in DOMAIN a : (k < Len(a)) => ~a[k].ok
      /\ \A j \in DOMAIN a, k \in DOMAIN a : (j # k) => a[j].slot # a[k].slot
      /\ (mailer.pc = "loop")
           => (mailer.i = Len(a) + 1 /\ \A k \in DOMAIN a : ~a[k].ok)
      /\ (mailer.pc = "returned") => (a # << >> /\ a[Len(a)].ok)
      /\ (mailer.pc = "thrown")
           => (Len(a) = Len(ts) /\ \A k \in DOMAIN a : ~a[k].ok)

C18_Witness ==
  /\ mailer.pc = "returned"
  /\ Len(mailer.transporters) = 3
  /\ mailer.attempts = <<[slot |-> "primary", ok |-> FALSE],
                         [slot |-> "backup", ok |-> TRUE]>>

\* C19: when sendWithFallback succeeds, the provider in its result is the
\* identity of the transporter that delivered the message, the first in list
\* order whose send succeeded, and no other configured transporter has that
\* identity.
C19_ProviderIdentifiesSender ==
  (mailer.pc = "returned")
  => LET k == Len(mailer.attempts)
         ts == mailer.transporters
     IN  /\ mailer.result.success
         /\ mailer.result.provider = ProviderIdentity(ts[k])
         /\ \A j \in DOMAIN ts :
              (ProviderIdentity(ts[j]) = mailer.result.provider) => j = k

\* C20: when every configured transporter has failed, sendWithFallback throws
\* one error whose message is the classification of the last error into one
\* of authentication failure, connection/network failure, recipient
\* rejected, malformed message, unknown, and one failure entry per attempted
\* transporter has been logged.
C20_AllFailedClassified ==
  (mailer.pc = "thrown")
  => /\ ~mailer.result.success
     /\ mailer.result.message = InterpretSmtpError(mailer.lastError)
     /\ mailer.result.message \in
          {MsgAuthFailed, MsgConnectFailed, MsgRejected, MsgMalformed, MsgSendFailed}
     /\ Len(mailer.logs) = Len(mailer.attempts)
     /\ Len(mailer.logs) = Len(mailer.transporters)

TriedEveryProvider ==
  /\ Len(alert.attempts) = Len(mailer.transporters)
  /\ \A k \in DOMAIN alert.attempts :
       alert.attempts[k].slot = mailer.transporters[k].slot

\* C22: a password-reset mail, an auto-deactivation notice or an admin
\* alert is reported failed only after every configured provider was tried
\* in list order, and a signup or Google verification code is sent through
\* one provider with no fallback.
C22_DeliveryPolicies ==
  (alert.pc \in {"returned", "threw"} /\ alert.attempts # << >>)
  => /\ ( /\ alert.kind \in {"passwordReset", "autoDeactivation",
                             "adminNotification", "deactivatedLoginAttempt"}
          /\ ~alert.success )
        => TriedEveryProvider
     /\ (alert.kind \in {"verification", "googleVerification"})
        => Len(alert.attempts) = 1

\* the elements of a list
Range(list) == {list[k] : k \in DOMAIN list}
NoDuplicates(list) ==
  \A j \in DOMAIN list, k \in DOMAIN list : list[j] = list[k] => j = k
AlertCall == alert.kind = "deactivatedLoginAttempt"

\* C23: once the admin query has answered, the recipients of the admin
\* alert are the static list united with the addresses of the users whose
\* role is admin or superadmin, who are verified and neither deactivated
\* nor auto-deactivated; no address occurs twice, and the rich alert is
\* addressed to exactly that list.
C23_AlertRecipients ==
  (AlertCall /\ alert.query = "ok")
  => /\ Range(alert.adminEmails) =
          Range(StaticAdminEmails)
            \cup {d.email : d \in
                    {x \in alert.collection :
                       /\ x.role \in {"admin", "superadmin"}
                       /\ x.isVerified
                       /\ ~x.isDeactivated
                       /\ ~x.isAutoDeactivated
                       /\ x.email # ""}}
     /\ NoDuplicates(alert.adminEmails)
     /\ alert.attempts # << >> => alert.attempts[1].to = alert.adminEmails

C23_Witness ==
  /\ AlertCall /\ alert.query = "ok" /\ alert.pc = "returned"
  /\ \E d \in alert.collection : d.email = "admin@x.com"
  /\ \E d \in alert.collection : d.email = "ecopulse00@gmail.com"
  /\ alert.attempts[1].to = <<"ecopulse00@gmail.com", "admin@x.com">>

\* C24: when the admin query fails the alert goes to the static list only,
\* and neither sendDeactivatedLoginAttempt nor sendAdminNotification ever
\* throws: an invalid user, a failed query, a failed send and a failed
\* fallback all end in a returned { success: false, error }.
C24_AlertNeverThrows ==
  /\ (AlertCall /\ alert.query = "failed")
     => /\ alert.adminEmails = StaticAdminEmails
        /\ \A k \in DOMAIN alert.attempts :
             alert.attempts[k].to = StaticAdminEmails
  /\ (alert.kind \in {"deactivatedLoginAttempt", "adminNotification"})
     => /\ alert.pc # "threw"
        /\ (alert.pc = "returned" /\ ~alert.success) => alert.error # ""

C24_Witness ==
  /\ AlertCall /\ alert.query = "failed" /\ alert.pc = "returned"
  /\ Len(alert.attempts) = 2
  /\ ~alert.attempts[1].ok /\ ~alert.attempts[2].ok
  /\ alert.collection # {}

\* C25: a rich admin alert that fails is followed by exactly one minimal
\* text send addressed to the static list, and the call returns
\* success: false whether that send resolves or not; a rich alert that is
\* delivered is followed by no other send.
C25_OneMinimalFallback ==
  AlertCall
  => /\ Len(alert.attempts) <= 2
     /\ (alert.pc = "plain")
        => (Len(alert.attempts) = 1 /\ ~alert.attempts[1].ok)
     /\ (alert.pc = "returned" /\ alert.attempts # << >>)
        => /\ alert.attempts[1].body = "html"
           /\ IF alert.attempts[1].ok
              THEN Len(alert.attempts) = 1 /\ alert.success
              ELSE /\ Len(alert.attempts) = 2
                   /\ alert.attempts[2].body = "text"
                   /\ alert.attempts[2].to = StaticAdminEmails
                   /\ ~alert.success

C25_Witness ==
  /\ AlertCall /\ alert.pc = "returned"
  /\ Len(alert.attempts) = 2
  /\ alert.attempts[1].to = <<"ecopulse00@gmail.com", "root@x.com">>
  /\ ~alert.attempts[1].ok
  /\ alert.attempts[2].ok
  /\ ~alert.success

\* C26: checkDeactivatedAccount answers every request that carries an email
\* with status 200 and the same body, whether or not the email has an
\* account, whatever the state of that account, and when the query throws.
C26_DeactivatedCheckUniform ==
  \A r \in Reqs :
    (Done(r, "checkDeactivated") /\ resp[r] # StatusResponse(400, EmailRequiredBody))
    => resp[r] = StatusResponse(200, DefaultResponse)

\* C27: the checkStatus answers for an email without an account and for the
\* email of an active account are both 200 and carry the same set of
\* fields.
C27_SameFieldsWithoutAccount ==
  \A r1 \in Reqs, r2 \in Reqs :
    ( /\ Done(r1, "checkStatus") /\ resp[r1].status = 200
      /\ Done(r2, "checkStatus") /\ resp[r2].status = 200
      /\ ~resp[r1].body.exists
      /\ resp[r2].body.exists /\ resp[r2].body.isActive )
    => /\ DOMAIN resp[r1].body = DOMAIN resp[r2].body
       /\ resp[r1].body.success = resp[r2].body.success

\* C28: for an existing account in any status the lockoutRemaining of a
\* checkStatus answer is the number of seconds from now to lockoutUntil when
\* lockoutUntil lies in the future, and 0 otherwise.
C28_LockoutFromLockoutUntil ==
  [][ \A r \in Reqs, e \in RequestEmails \ {""} :
        ( /\ CheckAccountStatus(r, e, TRUE)
          /\ FindByEmail(EmailToLowerCase(e)) # NoUser )
        => LET doc == users[FindByEmail(EmailToLowerCase(e))] IN
             resp'[r].body.lockoutRemaining =
               (IF doc.lockoutUntil # Unset /\ doc.lockoutUntil > now
                THEN (doc.lockoutUntil - now) * 86400 ELSE 0) ]_vars

\* the fields a checkStatus body may carry
StatusFields ==
  {"success", "exists", "message", "isActive", "isGoogleLinked",
   "hasPasswordSet", "isAutoDeactivated", "tokenExpired", "lockoutRemaining",
   "deactivatedAt", "error"}

\* C29: no checkStatus answer carries the stored password: the body has no
\* field beyond the status fields, none of its texts is the password, and
\* hasPasswordSet is the Boolean "a password is stored".
C29_PasswordNotInStatus ==
  \A r \in Reqs :
    Done(r, "checkStatus")
    => LET b == resp[r].body IN
         /\ DOMAIN b \subseteq StatusFields
         /\ \A u \in Users :
              users[u].password # ""
              => /\ b.message # users[u].password
                 /\ ("error" \in DOMAIN b) => b.error # users[u].password
         /\ ("hasPasswordSet" \in DOMAIN b)
            => /\ b.hasPasswordSet \in BOOLEAN
               /\ b.exists => (b.hasPasswordSet <=> users["u1"].password # "")

C29_Witness ==
  \E r \in Reqs :
    /\ Done(r, "checkStatus")
    /\ resp[r].status = 200
    /\ resp[r].body.exists
    /\ users["u1"].password # ""
    /\ resp[r].body.hasPasswordSet

\* the exception text a response carries
ErrorDetail(rsp) ==
  IF "body" \in DOMAIN rsp
  THEN (IF "error" \in DOMAIN rsp.body THEN rsp.body.error ELSE "")
  ELSE rsp.detail

\* C30: a handler whose store operation failed answers 500 with a generic
\* message, and in production the answer carries nothing of the store's
\* error message.
C30_NoErrorDetailInProduction ==
  \A r \in Reqs :
    (pc[r] = "done" /\ resp[r].status = 500)
    => /\ (IF "body" \in DOMAIN resp[r] THEN resp[r].body.message
           ELSE resp[r].message)
            \in {"Server error", "Server error during account reactivation",
                 "Server error checking account status."}
       /\ env.nodeEnv = "production" => ErrorDetail(resp[r]) = ""

\* the step counts as a reactivation attempt on the account u
AttemptCounted(u) ==
  /\ users'[u].reactivationAttempts = NextAttempts(users[u])
  /\ users'[u].lastReactivationAttempt = now

\* C31: every reactivation request that concerns an existing account counts
\* as an attempt on it: a reactivate call that is rejected although its
\* token belongs to an account (TokenExpired) increments that account's
\* reactivationAttempts and sets lastReactivationAttempt, and so does the
\* write of a requestReactivation call that matched.
C31_EveryAttemptCounted ==
  [][ \A r \in Reqs :
        /\ \A t \in Tokens :
             ( /\ ReactivateAccount(r, t)
               /\ FindByToken(t) # NoUser
               /\ pc'[r] = "done" )
             => AttemptCounted(FindByToken(t))
        /\ ( /\ RequestUpdate(r)
             /\ resp'[r].status = 200
             /\ loc[r].at = now
             /\ loc[r].att = NextAttempts(users[loc[r].uid]) )
           => AttemptCounted(loc[r].uid) ]_vars

\* C32: a call samples the time once: no answer of the deactivation-status
\* check or of checkStatus combines tokenExpired = false with a negative
\* remaining time, which only two different readings of the clock can give.
C32_OneClockReadingPerCall ==
  \A r \in Reqs :
    ( /\ pc[r] = "done" /\ op[r] \in {"checkDeactivated", "checkStatus"}
      /\ resp[r].status = 200
      /\ "tokenExpired" \in DOMAIN resp[r].body
      /\ ~resp[r].body.tokenExpired )
    => resp[r].body.lockoutRemaining >= 0

\* the record d is ACTIVE with every deactivation and token field removed
FullyReactivated(d) ==
  /\ ~d.isDeactivated /\ ~d.isAutoDeactivated
  /\ d.deletedAt = Unset /\ d.autoDeactivatedAt = Unset
  /\ d.reactivationToken = Unset /\ d.reactivationTokenExpires = Unset
  /\ d.reactivationAttempts = Unset /\ d.lastReactivationAttempt = Unset

\* C33: a reactivate call changes the store in one write: the only step of
\* the call that changes a record leaves that record ACTIVE with deletedAt,
\* autoDeactivatedAt, the token fields and the attempt counters removed and
\* lastLogin and lastActivity set, so no state in between exists for another
\* operation to read.
C33_ReactivateInOneWrite ==
  [][ \A r \in Reqs :
        /\ (\E t \in PresentableTokens : ReactivateAccount(r, t))
           => users' = users
        /\ (ReactivateUpdate(r) /\ users' # users)
           => /\ FullyReactivated(users'[loc[r].uid])
              /\ users'[loc[r].uid].lastLogin = loc[r].at
              /\ users'[loc[r].uid].lastActivity = loc[r].at
              /\ pc'[r] = "done" ]_vars

C33_Witness ==
  \E r \in Reqs :
    /\ Done(r, "reactivate")
    /\ resp[r].success
    /\ FullyReactivated(users["u1"])
    /\ users["u1"].lastLogin # Unset
    /\ users["u1"].lastActivity = users["u1"].lastLogin

\* a reactivate call that presents the token stored on doc at time t passes
\* the lookup and the expiry test
StoredTokenAccepted(doc, t) ==
  doc.reactivationToken # Unset /\ ~TokenExpired(doc, t)

\* C34: for a deactivated or auto-deactivated account checkStatus reports
\* tokenExpired, and reports true exactly when a reactivate call presenting
\* the stored token at that time would not succeed.
C34_TokenExpiredMatchesReactivate ==
  [][ \A r \in Reqs, e \in RequestEmails \ {""} :
        LET u == FindByEmail(EmailToLowerCase(e)) IN
          ( /\ CheckAccountStatus(r, e, TRUE)
            /\ u # NoUser
            /\ IsDeactivated(users[u]) )
          => /\ "tokenExpired" \in DOMAIN resp'[r].body
             /\ resp'[r].body.tokenExpired <=> ~StoredTokenAccepted(users[u], now) ]_vars

\* C35: of two concurrent deactivate / adminDeactivate calls on one ACTIVE
\* user one succeeds and the other answers Conflict: no such call writes
\* and succeeds on a record that another call has deactivated since this
\* one read it, so one token is issued and it is the stored one.
C35_OneDeactivationWins ==
  [][ \A r \in Reqs :
        (DeactivateSave(r) /\ resp'[r].success)
        => ~users[loc[r].uid].isDeactivated ]_vars

\* C36: each requestReactivation call that matched a deactivated account
\* raises reactivationAttempts by exactly one, also when such calls
\* interleave: the write of the call leaves the counter one above the value
\* the record holds when the write lands.
C36_AttemptsGrowByOne ==
  [][ \A r \in Reqs :
        (RequestUpdate(r) /\ resp'[r].success)
        => users'[loc[r].uid].reactivationAttempts
             = NextAttempts(users[loc[r].uid]) ]_vars

\* C37: a deactivated or auto-deactivated account whose stored token has
\* not expired can be reactivated: a reactivate call that presents the
\* stored token passes its checks, and when no other operation touches the
\* account before the call's write, the call answers 200 and leaves the
\* account ACTIVE with no token fields.
C37_UnexpiredTokenReactivates ==
  [][ \A r \in Reqs :
        /\ \A t \in Tokens, u \in Users :
             ( /\ ReactivateAccount(r, t)
               /\ users[u].reactivationToken = t
               /\ IsDeactivated(users[u])
               /\ users[u].reactivationTokenExpires >= now )
             => (pc'[r] = "write" /\ loc'[r].uid = u)
        /\ ( /\ ReactivateUpdate(r)
             /\ users[loc[r].uid].reactivationToken = token[r]
             /\ IsDeactivated(users[loc[r].uid]) )
           => /\ resp'[r] = RespReactivated(loc[r].uid)
              /\ FullyReactivated(users'[loc[r].uid]) ]_vars

C37_Witness ==
  \E r \in Reqs :
    /\ Done(r, "reactivate")
    /\ resp[r] = RespReactivated("u1")
    /\ token[r] \in Tokens
    /\ now = ReactivationDays
    /\ users["u1"].lastLogin = now
    /\ users["u1"].reactivationToken = Unset
    /\ ~IsDeactivated(users["u1"])

\* C38: requestReactivation and checkStatus identify accounts by the same
\* email normalization: a requestReactivation call with the email e matches
\* a deactivated account (and goes on to its write) exactly when checkStatus
\* reports for e an existing account that is not active.
C38_SameEmailNormalization ==
  [][ \A r \in Reqs, e \in RequestEmails \ {""} :
        RequestReactivation(r, e)
        => ( (pc'[r] = "write")
             <=> (StatusReport(e).exists /\ ~StatusReport(e).isActive) ) ]_vars

\* C39: reactivate(token) modifies only the record whose stored token equals
\* the presented token: every record a reactivate step changes holds the
\* presented token before the step and the call succeeds; all other records,
\* and every record when the call fails, are unchanged.
C39_ReactivateFrame ==
  [][ \A r \in Reqs :
        ( ReactivateUpdate(r)
          \/ \E tok \in PresentableTokens : ReactivateAccount(r, tok) )
        => \A u \in Users :
             users'[u] # users[u]
             => ( users[u].reactivationToken = token'[r]
                  /\ resp'[r].success ) ]_vars

\* C40: every invocation of a handler eventually sends exactly one HTTP
\* response, also when the store fails and when every notification send
\* fails: a handler waiting on its write has sent nothing and eventually
\* finishes; a finished handler has sent a response, and the events from its
\* write on hold exactly one response, as the last event.
C40_ExactlyOneResponse ==
  /\ [](\A r \in Reqs :
          /\ (pc[r] = "write") => (resp[r].status = 0 /\ ResponsesSent(r) = 0)
          /\ (pc[r] = "done") => (resp[r].status # 0)
          /\ (pc[r] = "done" /\ log[r] # << >>)
             => ( ResponsesSent(r) = 1
                  /\ log[r][Len(log[r])].kind = "response" ))
  /\ \A r \in Reqs : (pc[r] = "write") ~> (pc[r] = "done")

\* a reactivation whose confirmation mail and admin notification both failed
\* has answered 200, and a deactivation whose save failed has answered 500
C40_Witness ==
  /\ Done("r1", "reactivate")
  /\ resp["r1"].status = 200
  /\ log["r1"] = <<Event("write", TRUE), Event("reactivation_confirmation", FALSE),
                   Event("admin_notification", FALSE), Event("response", TRUE)>>
  /\ Done("r2", "deactivate")
  /\ resp["r2"].status = 500
  /\ log["r2"] = <<Event("write", FALSE), Event("response", TRUE)>>
====
